---- MODULE Spec2Model ----
(***************************************************************************)
(* Model of autodoc's docstring generation and insertion pipeline:         *)
(*   src/autodocumentation_python/insert_docstrings.py                     *)
(*   src/autodocumentation_python/create_docstrings.py                     *)
(*   src/code/main.py                                                      *)
(*                                                                         *)
(* A Python source text is a sequence of physical lines.  Every line is a  *)
(* record  [t, ind, kind, name, args, tail, txt]:                          *)
(*   t = "def"    one-line header   "def name(args):" / "class name(b):"   *)
(*   t = "hopen"  first line of a two-line header  "def name(a,"           *)
(*                (tail = "ccmt": the line ends in a comment whose last    *)
(*                 character is a colon, e.g. "def f(a,  # key:")          *)
(*   t = "hclose" last line of a two-line header   "      b):"             *)
(*   t = "blk"    header of a non-definition block "if c:"                 *)
(*   t = "stmt"   a simple statement, txt identifies it                    *)
(*   t = "doc"    a one-line string statement  """txt"""                   *)
(*                (tail = "stmt":  """txt"""; x = 1 )                      *)
(*   t = "q"      a line holding only the delimiter  """                   *)
(*   t = "dtxt"   a text line inside a delimited block                     *)
(*   t = "cmt"    a blank or comment-only line                             *)
(*   t = "sent"   a framing line of generated text; txt is start, end,     *)
(*                fence, fence_python (three backquotes) or quotes,        *)
(*                quotes_python (three single quotes)                      *)
(* tail of a header line ("def", "hclose") says what follows its colon:    *)
(*   ""  nothing, "cmt" an inline comment, "stmt" the body statement,      *)
(*   "doc" a one-line string statement """txt""".                          *)
(* ind is the number of leading spaces.                                    *)
(*                                                                         *)
(* The text of a documentation block is a string: "old", "new", "merged"   *)
(* are one-line texts, "old_ws" is the text old followed by blanks, "end"  *)
(* is the one line end, "" is the empty text; "framed" is the three lines  *)
(* start, merged, end and "padded" is merged between two empty lines.      *)
(***************************************************************************)
EXTENDS Integers, Sequences, FiniteSets, TLC

None == "None"

Line(t, ind, kind, name, args, tail, txt) ==
    [t |-> t, ind |-> ind, kind |-> kind, name |-> name, args |-> args,
     tail |-> tail, txt |-> txt]

(***************************************************************************)
(* ast.parse: the structure Python derives from the physical lines.        *)
(***************************************************************************)

\* number of delimiter-only lines before line l
QBefore(ls, l) == Cardinality({k \in 1..(l - 1) : ls[k].t = "q"})

\* line l lies inside a delimited string block (or closes it)
InStr(ls, l) == QBefore(ls, l) % 2 = 1

\* line l starts a statement
IsStart(ls, l) ==
    /\ ~InStr(ls, l)
    /\ ls[l].t \in {"def", "hopen", "blk", "stmt", "doc", "q"}

Starts(ls) == {l \in 1..Len(ls) : IsStart(ls, l)}

\* the line that carries the colon of the header starting at line h
HeaderEnd(ls, h) == IF ls[h].t = "hopen" THEN h + 1 ELSE h

HeaderTail(ls, h) == ls[HeaderEnd(ls, h)].tail

\* the header at line h is followed by an indented block
OpensBlock(ls, h) ==
    /\ ls[h].t \in {"def", "hopen", "blk"}
    /\ HeaderTail(ls, h) \in {"", "cmt"}

\* the indentation level L is on the tokenizer's stack after statement p
OpenLevel(ls, p, L) ==
    \E k \in Starts(ls) :
        /\ k <= p
        /\ ls[k].ind = L
        /\ \A m \in Starts(ls) : (k <= m /\ m <= p) => ls[m].ind >= L

\* ast.parse succeeds (no SyntaxError / IndentationError)
Parses(ls) ==
    LET S == Starts(ls)
        N == Len(ls)
        Prev(s) == CHOOSE p \in S : p < s /\ \A k \in S : k < s => k <= p
    IN  /\ Cardinality({k \in 1..N : ls[k].t = "q"}) % 2 = 0
        /\ \A l \in 1..N : ~InStr(ls, l) =>
               /\ ls[l].t \notin {"dtxt", "sent"}
               /\ ls[l].t = "hopen" => (l < N /\ ls[l + 1].t = "hclose")
               /\ ls[l].t = "hclose" => (l > 1 /\ ls[l - 1].t = "hopen")
        /\ \A s \in S :
               IF \A k \in S : k >= s
               THEN ls[s].ind = 0
               ELSE IF OpensBlock(ls, Prev(s))
                    THEN ls[s].ind > ls[Prev(s)].ind
                    ELSE OpenLevel(ls, Prev(s), ls[s].ind)
        /\ \A s \in S : (\A k \in S : k <= s) => ~OpensBlock(ls, s)

\* the block headers whose block contains the statement at line l
Enclosing(ls, l) ==
    {h \in Starts(ls) :
        /\ h < l
        /\ OpensBlock(ls, h)
        /\ ls[h].ind < ls[l].ind
        /\ \A k \in Starts(ls) : (h < k /\ k < l) => ls[k].ind > ls[h].ind}

IsDefLine(ls, l) == IsStart(ls, l) /\ ls[l].t \in {"def", "hopen"}

\* the width of the text between the parentheses of a header; identifiers
\* are one character wide, an annotation is ": int", a base that is not a
\* plain name is three characters wide ("m.B")
ArgsWidth(d) ==
    LET w(a) == IF d.kind = "func" THEN (IF a.ann = "" THEN 1 ELSE 6)
                ELSE (IF a.id # None THEN 1 ELSE 3)
        RECURSIVE Sum(_)
        Sum(i) == IF i = 0 THEN 0 ELSE w(d.args[i]) + Sum(i - 1)
    IN  Sum(Len(d.args)) + (IF Len(d.args) > 1 THEN 2 * (Len(d.args) - 1) ELSE 0)

\* col_offset of a statement that follows the colon on the header's line:
\* "def f(): x" and "class f(): x" for a one-line header, "): x" on the
\* last line of a two-line header
InlineCol(ls, h) ==
    IF ls[h].t = "hopen" THEN ls[h + 1].ind + 3
    ELSE ls[h].ind + ArgsWidth(ls[h]) + (IF ls[h].kind = "func" THEN 9 ELSE 11)

\* node.body[0] of the definition at line h: lineno, end_lineno,
\* col_offset, and the text ast.get_docstring reads from it (None if the
\* first statement is not a string expression)
Body0(ls, h) ==
    LET e == HeaderEnd(ls, h) IN
    IF HeaderTail(ls, h) \in {"stmt", "doc"}
    THEN [lineno |-> e, end_lineno |-> e, col_offset |-> InlineCol(ls, h),
          doc |-> IF ls[e].tail = "doc" THEN ls[e].txt ELSE None]
    ELSE LET b == CHOOSE k \in Starts(ls) :
                      k > e /\ \A m \in Starts(ls) : m > e => m >= k
             c == CHOOSE k \in (b + 1)..Len(ls) :
                      ls[k].t = "q" /\ \A m \in (b + 1)..(k - 1) : ls[m].t # "q"
         IN  IF ls[b].t = "q"
             THEN [lineno |-> b, end_lineno |-> c, col_offset |-> ls[b].ind,
                   doc |-> IF c = b + 2 THEN ls[b + 1].txt ELSE "multi"]
             ELSE [lineno |-> b, end_lineno |-> b, col_offset |-> ls[b].ind,
                   doc |-> IF ls[b].t = "doc" THEN ls[b].txt ELSE None]

RECURSIVE SortedLines(_)
SortedLines(S) ==
    IF S = {} THEN <<>>
    ELSE LET m == CHOOSE x \in S : \A y \in S : x <= y
         IN  <<m>> \o SortedLines(S \ {m})

\* names of the enclosing class/function definitions, outermost first
find_parent_nodes(ls, l) ==
    LET hs == SortedLines({h \in Enclosing(ls, l) : ls[h].t # "blk"})
    IN  [i \in DOMAIN hs |-> ls[hs[i]].name]

\* astunparse.unparse(node.args).strip(): each parameter with its annotation
unparse(args) == [i \in DOMAIN args |-> <<args[i].n, args[i].ann>>]

\* (name, args) of a definition line; for a class the joined base names,
\* falling back to the bases' value names, and to '' when neither exists
get_name_args(d) ==
    IF d.kind = "func"
    THEN <<d.name, unparse(d.args)>>
    ELSE IF \A i \in DOMAIN d.args : d.args[i].id # None
         THEN <<d.name, [i \in DOMAIN d.args |-> <<d.args[i].id, "">>]>>
         ELSE IF \A i \in DOMAIN d.args : d.args[i].val # None
              THEN <<d.name, [i \in DOMAIN d.args |-> <<d.args[i].val, "">>]>>
              ELSE <<d.name, <<>>>>

\* a ClassDef/FunctionDef node of the tree parsed from ls
Node(ls, l) ==
    [lineno |-> l,
     depth |-> 1 + Cardinality(Enclosing(ls, l)),
     key |-> <<get_name_args(ls[l])[1], get_name_args(ls[l])[2],
               find_parent_nodes(ls, l)>>,
     name |-> ls[l].name,
     body0 |-> Body0(ls, l)]

DefNodes(ls) == {Node(ls, l) : l \in {k \in 1..Len(ls) : IsDefLine(ls, k)}}

RECURSIVE WalkFrom(_)
WalkFrom(S) ==
    IF S = {} THEN <<>>
    ELSE LET m == CHOOSE x \in S : \A y \in S \ {x} :
                      \/ x.depth < y.depth
                      \/ x.depth = y.depth /\ x.lineno < y.lineno
         IN  <<m>> \o WalkFrom(S \ {m})

\* variant: the definitions in the order of their lines
walk_by_line(ls) ==
    LET S == {k \in 1..Len(ls) : IsDefLine(ls, k)}
        o == SortedLines(S)
    IN  [i \in DOMAIN o |-> Node(ls, o[i])]

\* the definitions in the order ast.walk yields them: breadth first
walk(ls) == WalkFrom(DefNodes(ls))

(***************************************************************************)
(* insert_docstrings.py: text helpers                                      *)
(***************************************************************************)

Q(indent) == Line("q", indent, "", "", <<>>, "", "")
DTxt(indent, txt) == Line("dtxt", indent, "", "", <<>>, "", txt)
Blank == Line("cmt", 0, "", "", <<>>, "", "")

\* the delimited block, every line prefixed by indent spaces; '' for None
shift_docstring(docstring, indent) ==
    IF docstring = None THEN <<>>
    ELSE <<Q(indent), DTxt(indent, docstring), Q(indent)>>

\* lines that are exactly start or end, or a code-fence marker (with or
\* without the word python), lose their text
remove_start_end_lines(ds) ==
    [i \in DOMAIN ds |->
        IF ds[i].t = "sent" /\ ds[i].txt \in {"start", "end", "fence_python", "fence"}
        THEN Blank ELSE ds[i]]

\* remove_start_end_lines on the text of one documentation block: a line
\* that is exactly start or end loses its text
remove_start_end_text(docstring) ==
    CASE docstring = "framed" -> "padded"
      [] docstring = "end" -> ""
      [] OTHER -> docstring

\* str.strip(): blanks and empty lines at both ends are dropped
strip(docstring) ==
    CASE docstring = "old_ws" -> "old"
      [] docstring = "padded" -> "merged"
      [] OTHER -> docstring

\* re.search(pattern, line): the line has a colon that, up to blanks, ends
\* the line or is followed by a comment
matches(line) ==
    \/ line.t \in {"def", "hclose"} /\ line.tail \in {"", "cmt"}
    \/ line.t = "hopen" /\ line.tail = "ccmt"
    \/ line.t = "blk"

Unbound == 0 - 1

\* start_lno + i, where i counts the lines of code_lines[start_lno-1:end_lno-1]
\* up to the first match (all of them when none matches); i is unbound when
\* the slice is empty
find_end_of_definition(code_lines, node) ==
    LET start_lno == node.lineno
        end_lno == node.body0.lineno
        n == end_lno - start_lno
        hit == {i \in 1..n : matches(code_lines[start_lno + i - 1])}
        i == IF hit = {} THEN n ELSE CHOOSE x \in hit : \A y \in hit : x <= y
    IN  IF n <= 0 THEN Unbound ELSE start_lno + i

\* compare_docstrings: [exc, doc, called]; reply is what gpt_compare does:
\* a text it returns, or the name of the exception it raises
IsRaise(reply) == reply \in {"AttributeError", "Exception"}

compare_docstrings(old_docstring, new_docstring, reply) ==
    IF new_docstring = None
    THEN [exc |-> "AttributeError", doc |-> None, called |-> FALSE]
    ELSE IF strip(old_docstring) = strip(new_docstring)
         THEN [exc |-> None, doc |-> new_docstring, called |-> FALSE]
         ELSE IF IsRaise(reply)
              THEN [exc |-> reply, doc |-> None, called |-> TRUE]
              ELSE [exc |-> None, doc |-> reply, called |-> TRUE]

\* variant: the loop deletes one line more than the range holds
del_lines_one_more(lines_code, start, end) ==
    SubSeq(lines_code, 1, start - 1) \o SubSeq(lines_code, end + 2, Len(lines_code))

\* for i in range(end-start+1): del lines_code[start-1]
del_lines(lines_code, start, end) ==
    SubSeq(lines_code, 1, start - 1) \o SubSeq(lines_code, end + 1, Len(lines_code))

\* lines_code.insert(index, block) with a 0-based index
insert_at(lines_code, index, block) ==
    SubSeq(lines_code, 1, index) \o block \o SubSeq(lines_code, index + 1, Len(lines_code))

\* variant: the comparison leaves the args out
first_match_name_only(w, node_doc) ==
    LET hit == {i \in DOMAIN w : w[i].key[1] = node_doc.key[1]
                                  /\ w[i].key[3] = node_doc.key[3]}
    IN  IF hit = {} THEN <<>>
        ELSE <<w[CHOOSE i \in hit : \A j \in hit : i <= j]>>

\* the first node of ast.walk(tree_code) whose (name, args, parents) equal
\* those of node_doc, as a one-element sequence; <<>> when there is none
first_match(w, node_doc) ==
    LET hit == {i \in DOMAIN w : w[i].key = node_doc.key}
    IN  IF hit = {} THEN <<>>
        ELSE <<w[CHOOSE i \in hit : \A j \in hit : i <= j]>>

NoSplice(lines_code, res, exc) ==
    [result |-> res, exc |-> exc, mode |-> None, start |-> 0, end |-> 0,
     target |-> 0, called |-> FALSE, written |-> lines_code]

\* the body of the loop of insert_1_docstring for the first node_code
\* whose key equals that of node_doc (none: None is returned)
splice(lines_code, matched, node_doc, reply) ==
    IF matched = <<>> THEN NoSplice(lines_code, "nomatch", None)
    ELSE
    LET node_code == matched[1]
        docstring == node_doc.body0.doc
        start == node_code.body0.lineno
        end == node_code.body0.end_lineno
        indent == node_code.body0.col_offset
    IN  IF node_code.body0.doc # None
        THEN LET cmp == compare_docstrings(node_code.body0.doc, docstring, reply)
             IN  IF cmp.exc # None
                 THEN [NoSplice(lines_code, "raised", cmp.exc) EXCEPT
                          !.called = cmp.called, !.target = node_code.lineno]
                 ELSE [result |-> "spliced", exc |-> None, mode |-> "replace",
                       start |-> start, end |-> end, target |-> node_code.lineno,
                       called |-> cmp.called,
                       written |-> insert_at(del_lines(lines_code, start, end),
                                             start - 1,
                                             shift_docstring(
                                                 strip(remove_start_end_text(cmp.doc)),
                                                 indent))]
        ELSE LET fe == find_end_of_definition(lines_code, node_code)
             IN  IF fe = Unbound
                 THEN [NoSplice(lines_code, "raised", "UnboundLocalError") EXCEPT
                          !.target = node_code.lineno]
                 ELSE [result |-> "spliced", exc |-> None, mode |-> "insert",
                       start |-> fe, end |-> fe, target |-> node_code.lineno,
                       called |-> FALSE,
                       written |-> insert_at(lines_code, fe - 1,
                                             shift_docstring(docstring, indent))]

\* insert_1_docstring on the lines read from the file.  result is
\* "spliced" (node_doc returned), "nomatch" (None returned) or "raised";
\* start and end are 1-based: the lines deleted in replace mode, the line
\* before which the block goes in insert mode
insert_1_docstring(lines_code, node_doc, reply) ==
    IF ~Parses(lines_code) THEN NoSplice(lines_code, "raised", "SyntaxError")
    ELSE CHOOSE r \in {splice(lines_code, m, node_doc, reply) :
                          m \in {first_match(walk(lines_code), node_doc)}} : TRUE

(***************************************************************************)
(* create_docstrings.py                                                    *)
(***************************************************************************)

CheapLimit == 300

\* class_or_func_present: "SyntaxError" when ast.parse raises
class_or_func_present(code) ==
    IF ~Parses(code) THEN "SyntaxError"
    ELSE IF DefNodes(code) # {} THEN "True" ELSE "False"

\* the cheap path drops a first line that starts with three single quotes
\* and the word python, and a last line that starts with three single quotes
strip_quotes(code_lines) ==
    LET n == Len(code_lines)
        a == IF n > 0 /\ code_lines[1].t = "sent" /\ code_lines[1].txt = "quotes_python"
             THEN 2 ELSE 1
        b == IF n >= a /\ code_lines[n].t = "sent"
                /\ code_lines[n].txt \in {"quotes", "quotes_python"}
             THEN n - 1 ELSE n
    IN  SubSeq(code_lines, a, b)

RECURSIVE make_snippets(_, _)
\* make_snippets: consecutive pieces of the file of max_lno lines each (the
\* last one may be shorter), each with its line count
make_snippets(code, n) ==
    IF Len(code) <= n
    THEN IF code = <<>> THEN <<>> ELSE <<[code |-> code, lines |-> Len(code)]>>
    ELSE <<[code |-> SubSeq(code, 1, n), lines |-> n]>>
         \o make_snippets(SubSeq(code, n + 1, Len(code)), n)

(***************************************************************************)
(* Inputs: source files, and the texts the generation service may return   *)
(***************************************************************************)

P(n, ann) == [n |-> n, ann |-> ann]
B(id, val) == [id |-> id, val |-> val]

Stmt(ind, txt) == Line("stmt", ind, "", "", <<>>, "", txt)
If(ind) == Line("blk", ind, "", "", <<>>, "", "")
Doc(ind, tail, txt) == Line("doc", ind, "", "", <<>>, tail, txt)
Sent(txt) == Line("sent", 0, "", "", <<>>, "", txt)

\* the header of a definition in one of the shapes
Header(ind, id, shape, txt) ==
    CASE shape = "one"      -> <<Line("def", ind, id.kind, id.name, id.args, "", "")>>
      [] shape = "one_cmt"  -> <<Line("def", ind, id.kind, id.name, id.args, "cmt", "")>>
      [] shape = "one_stmt" -> <<Line("def", ind, id.kind, id.name, id.args, "stmt", txt)>>
      [] shape = "one_doc"  -> <<Line("def", ind, id.kind, id.name, id.args, "doc", txt)>>
      [] shape = "two"      -> <<Line("hopen", ind, id.kind, id.name, id.args, "", ""),
                                 Line("hclose", ind + 6, "", "", <<>>, "", "")>>
      [] shape = "two_cmt"  -> <<Line("hopen", ind, id.kind, id.name, id.args, "", ""),
                                 Line("hclose", ind + 6, "", "", <<>>, "cmt", "")>>
      [] shape = "two_ccmt" -> <<Line("hopen", ind, id.kind, id.name, id.args, "ccmt", ""),
                                 Line("hclose", ind + 6, "", "", <<>>, "", "")>>
      [] shape = "two_stmt" -> <<Line("hopen", ind, id.kind, id.name, id.args, "", ""),
                                 Line("hclose", ind + 6, "", "", <<>>, "stmt", txt)>>
      [] shape = "two_doc"  -> <<Line("hopen", ind, id.kind, id.name, id.args, "", ""),
                                 Line("hclose", ind + 6, "", "", <<>>, "doc", txt)>>

BlockShapes == {"one", "one_cmt", "two", "two_cmt", "two_ccmt"}
InlineShapes == {"one_stmt", "one_doc", "two_stmt", "two_doc"}
DocForms == {"none", "line", "line_stmt", "block", "cmt_line"}

\* the body of a definition: an optional documentation block, a statement
Body(ind, form, txt, sid) ==
    CASE form = "none"      -> <<Stmt(ind, sid)>>
      [] form = "line"      -> <<Doc(ind, "", txt), Stmt(ind, sid)>>
      [] form = "line_stmt" -> <<Doc(ind, "stmt", txt)>>
      [] form = "block"     -> <<Q(ind), DTxt(ind, txt), Q(ind), Stmt(ind, sid)>>
      [] form = "cmt_line"  -> <<Blank, Doc(ind, "", txt)>>

F(name, args) == [kind |-> "func", name |-> name, args |-> args]
C(name, bases) == [kind |-> "class", name |-> name, args |-> bases]

Unit(ind, id, shape, form, sid) ==
    IF shape \in {"one_stmt", "two_stmt"} THEN Header(ind, id, shape, sid)
    ELSE IF shape \in InlineShapes THEN Header(ind, id, shape, "old")
    ELSE Header(ind, id, shape, "") \o Body(ind + 4, form, "old", sid)

Layouts == (BlockShapes \X DocForms) \cup (InlineShapes \X {"none"})

Ids == {F("f", <<>>), F("f", <<P("a", "")>>), F("f", <<P("a", "int")>>),
        F("g", <<>>), C("f", <<>>), C("f", <<B("a", None)>>),
        C("f", <<B(None, "m")>>), C("f", <<B("a", None), B(None, "m")>>),
        C("g", <<B(None, "a")>>)}

\* a definition that may follow the first definition of a file
TailUnits ==
    {Unit(0, F("g", <<>>), "one", "line", "s2"),
     Unit(0, F("f", <<>>), "one", "none", "s2")}

MaxTail == 1

RECURSIVE Tails(_)
\* up to n further definitions
Tails(n) ==
    IF n = 0 THEN {<<>>}
    ELSE {<<>>} \cup {u \o t : u \in TailUnits, t \in Tails(n - 1)}

Seconds == Tails(MaxTail)

MaxNest == 2

RECURSIVE Ifs(_)
\* n nested if headers
Ifs(n) == IF n = 0 THEN <<>> ELSE Ifs(n - 1) \o <<If(4 * (n - 1))>>

\* the headers a definition may be nested in
Wrappers ==
    {Ifs(n) : n \in 1..MaxNest}
    \cup {Header(0, C("K", <<>>), "one", ""), Header(0, F("g", <<>>), "two", "")}

Indent(ls, n) == [i \in DOMAIN ls |-> [ls[i] EXCEPT !.ind = @ + n]]

\* files of one definition, for every identity
IdFiles == {Unit(0, id, "one", f, "s1") : id \in Ids, f \in {"none", "line"}}

ValidFiles ==
    {Unit(0, F("f", <<>>), l[1], l[2], "s1") \o v : l \in Layouts, v \in Seconds}
    \cup
    {w \o Unit(4 * Len(w), F("f", <<>>), l, "none", "s1") \o v :
        w \in Wrappers, l \in {"one", "one_doc"}, v \in Seconds}
    \cup IdFiles
    \cup
    {Header(0, F("f", <<>>), "one", "") \o Body(4, f, t, "s1") :
        f \in {"line", "block"}, t \in {"old_ws", "end"}}
    \cup
    {<<Stmt(0, "s1")>>, <<Stmt(0, "s1"), Blank, Stmt(0, "s2")>>, <<>>}

InvalidFiles ==
    {<<Stmt(0, "s1"), Stmt(4, "s2")>>,
     Header(0, F("f", <<>>), "one", ""),
     <<Sent("fence")>> \o Unit(0, F("f", <<>>), "one", "none", "s1")}

Files == ValidFiles \cup InvalidFiles

\* an entry of generated documentation: a header and its documentation
Entry(ind, id, txt) ==
    IF txt = None THEN Header(ind, id, "one_stmt", "pass")
    ELSE Header(ind, id, "one", "") \o <<Doc(ind + 4, "", txt)>>

Entries == {Entry(0, id, t) : id \in Ids, t \in {"new"}}
           \cup {Entry(0, F("f", <<>>), t) : t \in {"old", "old_ws", "end", None}}

PlainTexts ==
    Entries
    \cup {Entry(0, F("f", <<>>), "new") \o e :
            e \in {Entry(0, F("g", <<>>), "new"), Entry(0, F("f", <<>>), "old"),
                   Entry(0, F("g", <<>>), None)}}
    \cup {Entry(0, F("g", <<>>), "new") \o Entry(0, F("f", <<>>), "new"),
          Header(0, C("K", <<>>), "one", "") \o Entry(4, F("f", <<>>), "new")
              \o Entry(0, F("g", <<>>), "new"),
          <<If(0)>> \o Entry(4, F("f", <<>>), "new"),
          Header(0, F("g", <<>>), "one", "") \o Entry(4, F("f", <<>>), "new"),
          <<>>}

BadTexts == {<<DTxt(0, "prose")>>, <<Sent("fence")>>}

\* replies to the docstrings-only prompt, framed by start and end
FramedTexts ==
    PlainTexts \cup BadTexts
    \cup {<<Sent("start")>> \o Entry(0, F("f", <<>>), "new") \o <<Sent("end")>>,
          <<Sent("fence_python")>> \o Entry(0, F("f", <<>>), "new") \o <<Sent("fence")>>}

\* the replies for the file code: documentation for the other identities
\* is returned for the files of one definition only
FramedTextsFor(code) ==
    IF code \in IdFiles THEN FramedTexts
    ELSE FramedTexts \ {Entry(0, id, "new") :
                            id \in Ids \ {F("f", <<>>), F("g", <<>>)}}

\* replies to the whole-file prompt, framed by quote lines
QuotedTexts ==
    {Entry(0, F("f", <<>>), "new"),
     Entry(0, F("f", <<>>), "new") \o Entry(0, F("g", <<>>), "new"),
     <<Sent("quotes_python")>> \o Entry(0, F("f", <<>>), "new") \o <<Sent("quotes")>>,
     <<Sent("quotes_python")>> \o Entry(0, F("g", <<>>), "new"),
     <<DTxt(0, "prose")>>}

\* replies for one snippet
SnippetTexts == {Entry(0, F("f", <<>>), "new"), <<DTxt(0, "prose")>>}

\* what gpt_compare may do: return a text, framed by start and end or not,
\* or raise
Replies == {"framed", "merged", "AttributeError", "Exception"}

(***************************************************************************)
(* The program                                                             *)
(***************************************************************************)

VARIABLES pc, cost, max_lno, file, orig, status, snips, generated,
          docstrings, gpt_calls, todo, numb_node_doc, numb_inserted_nodes,
          numb_nodes_code, report, last, run, first, write_gpt_output,
          info_repo, gpt_output, exc

vars == <<pc, cost, max_lno, file, orig, status, snips, generated,
          docstrings, gpt_calls, todo, numb_node_doc, numb_inserted_nodes,
          numb_nodes_code, report, last, run, first, write_gpt_output,
          info_repo, gpt_output, exc>>

NoLast == [node |-> None, before |-> <<>>, result |-> None, exc |-> None,
           mode |-> None, start |-> 0, end |-> 0, target |-> 0,
           called |-> FALSE, written |-> <<>>]

NoReport == [printed |-> FALSE, not_inserted |-> <<>>, not_generated |-> <<>>,
             inserted |-> 0, in_code |-> 0, generated |-> 0]

Init ==
    /\ pc = "main"
    /\ cost \in {"cheap", "expensive"}
    /\ max_lno \in IF cost = "cheap" THEN {1200} ELSE {4, 1200}
    \* write_gpt_output is a parameter of main, info_repo what summarize_repo
    \* returned; info_repo is read by main only under write_gpt_output.  The
    \* directory gpt_output is made by create_docstrings alone
    /\ write_gpt_output \in BOOLEAN
    /\ info_repo \in IF write_gpt_output THEN {None, "repo info"} ELSE {"repo info"}
    /\ gpt_output = FALSE
    /\ exc = None
    /\ file = <<>>
    /\ orig = <<>>
    /\ status = None
    /\ snips = <<>>
    /\ generated = <<>>
    /\ docstrings = <<>>
    /\ gpt_calls = 0
    /\ todo = <<>>
    /\ numb_node_doc = <<>>
    /\ numb_inserted_nodes = <<>>
    /\ numb_nodes_code = <<>>
    /\ report = NoReport
    /\ last = NoLast
    /\ run = 1
    /\ first = <<>>

PerFileReset ==
    /\ snips' = <<>>
    /\ generated' = <<>>
    /\ docstrings' = <<>>
    /\ gpt_calls' = 0
    /\ todo' = <<>>
    /\ numb_node_doc' = <<>>
    /\ numb_inserted_nodes' = <<>>
    /\ numb_nodes_code' = <<>>
    /\ report' = NoReport
    /\ last' = NoLast
    /\ run' = 1
    /\ first' = <<>>

\* main: the loop reaches the next .py file and calls create_docstrings
main_next_file(f) ==
    /\ pc = "main"
    /\ file' = f
    /\ orig' = f
    /\ pc' = "create"
    /\ UNCHANGED <<run, first, gpt_output, exc, cost, max_lno, write_gpt_output,
                   info_repo, status, snips, generated, docstrings,
                   gpt_calls, todo, numb_node_doc, numb_inserted_nodes,
                   numb_nodes_code, report, last>>

\* main: insert_docstrings has returned, or its exception was caught and
\* the file is skipped; the loop goes on and nothing of the file is kept
main_continue ==
    /\ pc = "end_file"
    /\ pc' = "main"
    /\ file' = <<>>
    /\ orig' = <<>>
    /\ status' = None
    /\ PerFileReset
    /\ UNCHANGED <<gpt_output, exc, cost, max_lno, write_gpt_output, info_repo>>

\* main: no file is left.  With write_gpt_output and a summary of the
\* repository, info_repo is written into the directory gpt_output; open
\* raises FileNotFoundError when no reply was written there before
main_finished ==
    /\ pc = "main"
    /\ IF write_gpt_output /\ info_repo # None /\ ~gpt_output
       THEN pc' = "crashed" /\ exc' = "FileNotFoundError"
       ELSE pc' = "finished" /\ exc' = exc
    /\ UNCHANGED <<run, first, gpt_output, cost, max_lno, write_gpt_output,
                   info_repo, file, orig, status, snips, generated,
                   docstrings, gpt_calls, todo, numb_node_doc,
                   numb_inserted_nodes, numb_nodes_code, report, last>>

\* create_docstrings, a file analysed directly: the SyntaxError of
\* class_or_func_present leaves main; without definitions '' is returned
\* and gptapi is not called; with write_gpt_output the reply is written
\* into the directory gpt_output, which is made for it
create_direct(reply) ==
    \E p \in {class_or_func_present(file)} :
    /\ pc' = IF p = "SyntaxError" THEN "crashed" ELSE "insert"
    /\ exc' = IF p = "SyntaxError" THEN "SyntaxError" ELSE exc
    /\ gpt_output' = (gpt_output \/ (p = "True" /\ write_gpt_output))
    /\ docstrings' = IF p = "True" THEN reply ELSE <<>>
    /\ gpt_calls' = IF p = "True" THEN gpt_calls + 1 ELSE gpt_calls
    /\ generated' = IF p = "True" THEN <<[code |-> file, text |-> reply]>>
                    ELSE generated
    /\ UNCHANGED <<run, first, cost, max_lno, write_gpt_output,
                   info_repo, file, orig, status, snips, todo,
                   numb_node_doc, numb_inserted_nodes, numb_nodes_code,
                   report, last>>

create_cheap(reply) ==
    /\ pc = "create"
    /\ Len(file) <= CheapLimit /\ cost = "cheap"
    /\ create_direct(strip_quotes(reply))

create_expensive(reply) ==
    /\ pc = "create"
    /\ reply \in FramedTextsFor(file)
    /\ ~(Len(file) <= CheapLimit /\ cost = "cheap")
    /\ \/ Len(file) <= max_lno /\ cost = "expensive"
       \/ CheapLimit < Len(file) /\ Len(file) <= max_lno /\ cost = "cheap"
    /\ create_direct(reply)

\* create_docstrings, a file longer than max_lno: make_snippets
create_snippets ==
    /\ pc = "create"
    /\ ~(Len(file) <= CheapLimit /\ cost = "cheap")
    /\ ~(Len(file) <= max_lno /\ cost = "expensive")
    /\ ~(CheapLimit < Len(file) /\ Len(file) <= max_lno /\ cost = "cheap")
    /\ Len(file) > max_lno
    /\ snips' = make_snippets(file, max_lno)
    /\ pc' = "snippets"
    /\ UNCHANGED <<run, first, gpt_output, exc, cost, max_lno, write_gpt_output,
                   info_repo, file, orig, status, generated,
                   docstrings, gpt_calls, todo, numb_node_doc,
                   numb_inserted_nodes, numb_nodes_code, report, last>>

\* one round of the loop over the snippets; after the last one the
\* concatenated text is returned to main.  gptapi is called unless
\* class_or_func_present returns False (its exception is passed over)
create_snippet(reply) ==
    /\ pc = "snippets"
    /\ snips # <<>>
    /\ \E code_snippet \in {Head(snips)} :
       \E skip \in {class_or_func_present(code_snippet.code) = "False"} :
          /\ docstrings' = IF skip THEN docstrings ELSE docstrings \o reply
          /\ gpt_calls' = IF skip THEN gpt_calls ELSE gpt_calls + 1
          /\ generated' = IF skip THEN generated
                          ELSE Append(generated,
                                      [code |-> code_snippet.code, text |-> reply])
          /\ gpt_output' = (gpt_output \/ (~skip /\ write_gpt_output))
    /\ snips' = Tail(snips)
    /\ pc' = IF Tail(snips) = <<>> THEN "insert" ELSE "snippets"
    /\ UNCHANGED <<run, first, exc, cost, max_lno, write_gpt_output,
                   info_repo, file, orig, status, todo,
                   numb_node_doc, numb_inserted_nodes, numb_nodes_code,
                   report, last>>

(***************************************************************************)
(* insert_docstrings; run is 1 in the first call for a file and 2 in a     *)
(* second call with the same text                                          *)
(***************************************************************************)

Names(nodes) == [i \in DOMAIN nodes |-> nodes[i].name]

RECURSIVE Filter(_, _)
\* the elements of seq that are not in the set drop, in order
Filter(seq, drop) ==
    IF seq = <<>> THEN <<>>
    ELSE IF Head(seq) \in drop THEN Filter(Tail(seq), drop)
         ELSE <<Head(seq)>> \o Filter(Tail(seq), drop)

Range(seq) == {seq[i] : i \in DOMAIN seq}

\* variant: the definitions of the text by ascending start line
doc_nodes_by_line(ds) == walk_by_line(ds)

\* the ClassDef/FunctionDef nodes the loop over ast.walk(tree_doc) reaches,
\* in its order
doc_nodes(ds) == walk(ds)

\* insert_docstrings up to its loop: the framing lines are removed, the
\* file and the text are parsed; a SyntaxError is caught by main, which
\* skips the file
insert_start ==
    /\ pc = "insert"
    /\ \E ds \in {remove_start_end_lines(docstrings)} :
          /\ docstrings' = ds
          /\ IF Parses(file) /\ Parses(ds)
             THEN /\ numb_nodes_code' = Names(walk(file))
                  /\ todo' = doc_nodes(ds)
                  /\ pc' = "loop"
                  /\ UNCHANGED status
             ELSE /\ status' = "skipped"
                  /\ pc' = "end_file"
                  /\ UNCHANGED <<numb_nodes_code, todo>>
    /\ UNCHANGED <<run, first, gpt_output, exc, cost, max_lno, write_gpt_output,
                   info_repo, file, orig, snips, generated,
                   gpt_calls, numb_node_doc, numb_inserted_nodes, report, last>>

\* variant: the lines read before the first splice are kept
lines_code_stale == orig

\* what insert_1_docstring reads from file_path at its start
lines_code == file

\* one round of the loop over ast.walk(tree_doc): insert_1_docstring for the
\* next definition of the text; an AttributeError is caught here, any other
\* exception by main, which skips the file
insert_node(reply) ==
    /\ pc = "loop"
    /\ todo # <<>>
    /\ \E node_doc \in {Head(todo)} :
       \E r \in {insert_1_docstring(lines_code, node_doc, reply)} :
          /\ todo' = Tail(todo)
          /\ numb_node_doc' = Append(numb_node_doc, node_doc)
          /\ last' = [node |-> node_doc, before |-> lines_code,
                      result |-> r.result, exc |-> r.exc, mode |-> r.mode,
                      start |-> r.start, end |-> r.end, target |-> r.target,
                      called |-> r.called, written |-> r.written]
          /\ file' = IF r.result = "spliced" THEN r.written ELSE file
          /\ numb_inserted_nodes' =
                 IF r.result = "spliced"
                 THEN Append(numb_inserted_nodes, node_doc)
                 ELSE numb_inserted_nodes
          /\ IF r.result = "raised" /\ r.exc # "AttributeError"
             THEN status' = "skipped" /\ pc' = "end_file"
             ELSE UNCHANGED <<status, pc>>
    /\ UNCHANGED <<run, first, gpt_output, exc, cost, max_lno, write_gpt_output,
                   info_repo, orig, snips, generated,
                   docstrings, gpt_calls, numb_nodes_code, report>>

\* the end of insert_docstrings: the report
insert_report ==
    /\ pc = "loop"
    /\ todo = <<>>
    /\ report' =
         [printed |-> Len(numb_inserted_nodes) # Len(numb_nodes_code),
          not_inserted |-> Names(Filter(numb_node_doc, Range(numb_inserted_nodes))),
          not_generated |-> Filter(numb_nodes_code, Range(Names(numb_node_doc))),
          inserted |-> Len(numb_inserted_nodes),
          in_code |-> Len(numb_nodes_code),
          generated |-> Len(numb_node_doc)]
    /\ status' = "done"
    /\ pc' = "end_file"
    /\ UNCHANGED <<run, first, gpt_output, exc, cost, max_lno, write_gpt_output,
                   info_repo, file, orig, snips, generated,
                   docstrings, gpt_calls, todo, numb_node_doc,
                   numb_inserted_nodes, numb_nodes_code, last>>

RECURSIVE Concat(_)
\* the texts of the sequence g, one after the other
Concat(g) == IF g = <<>> THEN <<>> ELSE Head(g).text \o Concat(Tail(g))

\* insert_docstrings is called a second time for the file, with the text
\* create_docstrings returned; first keeps the file as the first call left it
insert_again ==
    /\ pc = "end_file"
    /\ status = "done"
    /\ run = 1
    /\ run' = 2
    /\ first' = file
    /\ docstrings' = Concat(generated)
    /\ status' = None
    /\ todo' = <<>>
    /\ numb_node_doc' = <<>>
    /\ numb_inserted_nodes' = <<>>
    /\ numb_nodes_code' = <<>>
    /\ report' = NoReport
    /\ last' = NoLast
    /\ pc' = "insert"
    /\ UNCHANGED <<gpt_output, exc, cost, max_lno, write_gpt_output, info_repo,
                   file, orig, snips, generated, gpt_calls>>

Next ==
    \/ \E f \in Files : main_next_file(f)
    \/ main_continue
    \/ main_finished
    \/ \E reply \in QuotedTexts : create_cheap(reply)
    \/ \E reply \in FramedTexts : create_expensive(reply)
    \/ create_snippets
    \/ \E reply \in SnippetTexts : create_snippet(reply)
    \/ insert_start
    \/ \E reply \in Replies : insert_node(reply)
    \/ insert_report
    \/ insert_again

Spec == Init /\ [][Next]_vars

(***************************************************************************)
(* Properties                                                              *)
(***************************************************************************)

Spliced == last.result = "spliced"

\* the identity key of the definition at line l of the text ls
KeyAt(ls, l) ==
    <<get_name_args(ls[l])[1], get_name_args(ls[l])[2], find_parent_nodes(ls, l)>>

\* the lines of ls at which a definition with the key k starts
SameKey(ls, k) == {l \in 1..Len(ls) : IsDefLine(ls, l) /\ KeyAt(ls, l) = k}

\* C1: after a splice (replace or insert mode) the lines before start and
\* the lines after end (from start on in insert mode) are the lines the
\* file had, in their order, and the file holds what the splice wrote
C1_NonInterference ==
    Spliced =>
        LET b == last.before
            a == last.written
            keep == IF last.mode = "replace" THEN Len(b) - last.end
                    ELSE Len(b) - last.start + 1
        IN  /\ file = a
            /\ Len(a) >= last.start - 1 + keep
            /\ SubSeq(a, 1, last.start - 1) = SubSeq(b, 1, last.start - 1)
            /\ SubSeq(a, Len(a) - keep + 1, Len(a)) = SubSeq(b, Len(b) - keep + 1, Len(b))

\* a replacement in the middle of a file: lines before and after the range
C1_Witness ==
    /\ Spliced
    /\ last.mode = "replace"
    /\ last.start > 1
    /\ last.end < Len(last.before)
    /\ last.written # last.before

\* the line carries a header or a statement that is not documentation
CarriesCode(line) ==
    \/ line.t \in {"def", "hopen", "hclose", "blk", "stmt"}
    \/ line.t = "doc" /\ line.tail = "stmt"

\* C2: a splice removes only the documentation block of the matched
\* definition: no deleted line carries a header or another statement
C2_OnlyDocumentationRemoved ==
    (Spliced /\ last.mode = "replace") =>
        \A k \in last.start..last.end : ~CarriesCode(last.before[k])

\* C3: a documentation node is spliced into a definition only if name,
\* args and parents are equal, and finds no match only if no definition of
\* the file has its key
C3_MatchOnKey ==
    /\ last.target # 0 =>
           KeyAt(last.before, last.target) = KeyAt(docstrings, last.node.lineno)
    /\ last.result = "nomatch" =>
           SameKey(last.before, KeyAt(docstrings, last.node.lineno)) = {}

\* a splice into a definition that starts on another line than the
\* documentation node, in a file with a definition of the same name but
\* another key
C3_Witness ==
    /\ Spliced
    /\ last.target # last.node.lineno
    /\ \E l \in 1..Len(last.before) :
          /\ IsDefLine(last.before, l)
          /\ last.before[l].name = last.node.name
          /\ KeyAt(last.before, l) # last.node.key

\* C4 as stated: of several definitions with the key, the one with the
\* lowest start line is matched
C4_FirstInDocumentOrder ==
    Spliced => \A l \in SameKey(last.before, last.node.key) : last.target <= l

\* the nesting depth of the node at line l in the syntax tree
DepthAt(ls, l) == 1 + Cardinality(Enclosing(ls, l))

\* C4 amended: of several definitions with the key, the first in
\* breadth-first order is matched: the least deeply nested one, and of
\* those at the same depth the one with the lowest start line
C4_FirstInBreadthFirstOrder ==
    Spliced =>
        \A l \in SameKey(last.before, last.node.key) :
            \/ DepthAt(last.before, last.target) < DepthAt(last.before, l)
            \/ /\ DepthAt(last.before, last.target) = DepthAt(last.before, l)
               /\ last.target <= l

\* the matched definition starts after a more deeply nested one of its key
C4_Witness ==
    /\ Spliced
    /\ \E l \in SameKey(last.before, last.node.key) :
          l < last.target /\ DepthAt(last.before, l) > DepthAt(last.before, last.target)

\* C5: without an existing documentation block, and with a header whose
\* colon ends its line or is followed by a comment, the block goes right
\* after the line of the header's colon, indented like the first body
\* statement, and nothing else changes
C5_InsertAfterHeaderColon ==
    (/\ Spliced
     /\ last.mode = "insert"
     /\ HeaderTail(last.before, last.target) \in {"", "cmt"}) =>
        LET e == HeaderEnd(last.before, last.target)
            b == Body0(last.before, last.target)
        IN  /\ last.start = e + 1
            /\ last.written =
                   SubSeq(last.before, 1, e)
                   \o shift_docstring(last.node.body0.doc, b.col_offset)
                   \o SubSeq(last.before, e + 1, Len(last.before))

\* no line from the header line up to the first body statement matches
NoColonLine(ls, h) ==
    \A k \in h..(Body0(ls, h).lineno - 1) : ~matches(ls[k])

\* C6: when the matched definition has no documentation block and no line
\* of its span matches, nothing is spliced for the node and the loop over
\* the documentation nodes goes on
C6_MalformedHeaderSkipsNode ==
    (/\ last.target # 0
     /\ Body0(last.before, last.target).doc = None
     /\ NoColonLine(last.before, last.target)) =>
        /\ ~Spliced
        /\ file = last.before
        /\ status # "skipped"

\* C7: when gpt_compare raises, the file keeps the old block and the loop
\* over the documentation nodes goes on
C7_ReconcileFailureSkipsNode ==
    (last.called /\ last.exc # None) =>
        /\ file = last.before
        /\ status # "skipped"

\* C8: no file whose text fails to parse ends the run of main
C8_RunNeverAborts == ~(pc = "crashed" /\ exc = "SyntaxError")

\* the text of a snippet has a definition whose key a definition of the
\* file has
Matchable(text) ==
    /\ Parses(text)
    /\ \E l \in 1..Len(text) :
          IsDefLine(text, l) /\ SameKey(orig, KeyAt(text, l)) # {}

\* C9: when insert_docstrings has ended for a file processed as snippets,
\* one snippet's text being invalid does not keep the documentation of
\* another snippet from being inserted
C9_OtherSnippetsInserted ==
    (/\ pc = "end_file"
     /\ Len(generated) > 1
     /\ Parses(orig)
     /\ \E i, j \in DOMAIN generated :
           /\ ~Parses(remove_start_end_lines(generated[i].text))
           /\ Matchable(remove_start_end_lines(generated[j].text))) =>
        numb_inserted_nodes # <<>>

\* C10: every splice works on the lines of the file as the previous splice
\* left it, and its positions are those of the parse of these lines
C10_PositionsFromPersistedFile ==
    [][(Len(numb_node_doc') > Len(numb_node_doc) /\ last'.result = "spliced") =>
          /\ last'.before = file
          /\ Parses(file)
          /\ IsDefLine(file, last'.target)
          /\ IF last'.mode = "replace"
             THEN /\ last'.start = Body0(file, last'.target).lineno
                  /\ last'.end = Body0(file, last'.target).end_lineno
             ELSE last'.start = find_end_of_definition(file, Node(file, last'.target))]_vars

\* a second splice, below the first one, in a file the first one changed
C10_Witness ==
    /\ Spliced
    /\ Len(numb_inserted_nodes) > 1
    /\ last.before # orig
    /\ \E i \in 1..Len(orig) : i < last.target /\ last.before[i] # orig[i]

\* C11 as stated: the definitions of the generated text are attempted by
\* ascending start line
C11_DocumentOrder ==
    \A i, j \in DOMAIN numb_node_doc :
        i < j => numb_node_doc[i].lineno < numb_node_doc[j].lineno

\* C11 amended: the definitions of the generated text are attempted one at
\* a time in breadth-first order of its tree: by nesting depth, and by
\* ascending start line among those of one depth; the loop leaves none out
C11_BreadthFirstOrder ==
    /\ \A i, j \in DOMAIN numb_node_doc :
           i < j =>
               LET a == numb_node_doc[i].lineno
                   b == numb_node_doc[j].lineno
               IN  \/ DepthAt(docstrings, a) < DepthAt(docstrings, b)
                   \/ /\ DepthAt(docstrings, a) = DepthAt(docstrings, b)
                      /\ a < b
    /\ pc = "loop" =>
           Len(numb_node_doc) + Len(todo)
               = Cardinality({l \in 1..Len(docstrings) : IsDefLine(docstrings, l)})

\* a later top-level definition was attempted before a method of an
\* earlier class
C11_Witness ==
    \E i, j \in DOMAIN numb_node_doc :
        /\ i < j
        /\ numb_node_doc[i].lineno > numb_node_doc[j].lineno
        /\ numb_node_doc[j].key[3] # <<>>
        /\ numb_node_doc[i].key[3] = <<>>

\* the keys of the definitions of the text ls
Keys(ls) == {KeyAt(ls, l) : l \in {k \in 1..Len(ls) : IsDefLine(ls, k)}}

\* C12: when insert_docstrings has printed its report, the definitions
\* listed as not generated are exactly the definitions of the file whose
\* (name, args, parents) key no definition of the generated text has
C12_ReportOverKeys ==
    (pc = "end_file" /\ status = "done") =>
        report.not_generated =
            Names(SelectSeq(walk(orig), LAMBDA n : n.key \notin Keys(docstrings)))

\* the parameter names of a function header, annotations left out
ParamNames(d) == [i \in DOMAIN d.args |-> d.args[i].n]

\* the function at line l of ls and the function at line m of ds differ at
\* most in the annotations of their parameters
SameButAnnotations(ls, l, ds, m) ==
    /\ IsDefLine(ls, l) /\ ls[l].kind = "func"
    /\ IsDefLine(ds, m) /\ ds[m].kind = "func"
    /\ ls[l].name = ds[m].name
    /\ ParamNames(ls[l]) = ParamNames(ds[m])
    /\ find_parent_nodes(ls, l) = find_parent_nodes(ds, m)

\* C13: two functions of the same name and parents whose parameter lists
\* differ only in type annotations have equal keys, so a documentation node
\* finds a match whenever the file has such a function
C13_AnnotationsIgnored ==
    last.result # None =>
        \A l \in 1..Len(last.before) :
            SameButAnnotations(last.before, l, docstrings, last.node.lineno) =>
                /\ KeyAt(last.before, l) = KeyAt(docstrings, last.node.lineno)
                /\ last.result # "nomatch"

\* the documentation block of the definition the last documentation node
\* matched, as the file had it, and the text of the documentation node
OldDoc == Body0(last.before, last.target).doc
NewDoc == last.node.body0.doc

\* the text of the block the last splice wrote
FinalDoc == last.written[last.start + 1].txt

\* C14: when the matched definition has a documentation block that equals
\* the new text up to surrounding whitespace, the block written holds the
\* new text and gpt_compare is not called; gpt_compare is called only when
\* an old block exists and differs from the new text
C14_EqualKeepsNewWithoutCall ==
    /\ (/\ last.target # 0
        /\ OldDoc # None
        /\ NewDoc # None
        /\ strip(OldDoc) = strip(NewDoc)) =>
           /\ Spliced
           /\ ~last.called
           /\ strip(FinalDoc) = strip(NewDoc)
    /\ last.called =>
           /\ OldDoc # None
           /\ strip(OldDoc) # strip(NewDoc)

\* the text has no class or function definition
NoDefinition(ls) == \A l \in 1..Len(ls) : ~IsDefLine(ls, l)

\* C15: gptapi is called for no file or snippet without a definition; a
\* file without a definition gets the empty text from create_docstrings,
\* and insert_docstrings then splices nothing and its report counts nothing
C15_SkipOnEmpty ==
    /\ \A i \in DOMAIN generated : ~NoDefinition(generated[i].code)
    /\ (NoDefinition(orig) /\ pc \notin {"main", "create", "snippets"}) =>
           /\ ~(pc = "crashed" /\ exc = "SyntaxError")
           /\ gpt_calls = 0
           /\ docstrings = <<>>
    /\ (NoDefinition(orig) /\ pc = "end_file") =>
           /\ status = "done"
           /\ file = orig
           /\ report.inserted = 0
           /\ report.generated = 0
           /\ report.in_code = 0
           /\ report.not_inserted = <<>>
           /\ report.not_generated = <<>>

\* the last documentation node attempted has the key of no definition of
\* the file
NoCodeDefinition ==
    /\ last.result # None
    /\ SameKey(last.before, KeyAt(docstrings, last.node.lineno)) = {}

\* C16: a documentation node whose key no definition of the file has
\* raises no exception and writes nothing, the loop over the documentation
\* nodes goes on, and the report that is printed lists the node as not
\* inserted
C16_NoMatchIsSilent ==
    NoCodeDefinition =>
        /\ last.exc = None
        /\ file = last.before
        /\ status # "skipped"
        /\ pc \in {"loop", "end_file"}
        /\ pc = "end_file" =>
               /\ report.printed
               /\ \E i \in DOMAIN report.not_inserted :
                      report.not_inserted[i] = last.node.name

\* C17: when insert_docstrings has ended and two definitions of the file,
\* or two of the generated text, have the same key, documentation was
\* spliced for that key once, and the second definition is listed as not
\* inserted in the printed report
C17_DuplicateKeyOnce ==
    (pc = "end_file" /\ status = "done") =>
        /\ \A i, j \in DOMAIN numb_inserted_nodes :
               i # j => numb_inserted_nodes[i].key # numb_inserted_nodes[j].key
        /\ \A i, j \in DOMAIN numb_node_doc :
               (i < j /\ numb_node_doc[i].key = numb_node_doc[j].key) =>
                   /\ report.printed
                   /\ numb_node_doc[j].name \in Range(report.not_inserted)
        /\ \A k \in Keys(docstrings) :
               Cardinality(SameKey(orig, k)) > 1 =>
                   /\ report.printed
                   /\ k[1] \in Range(report.not_inserted)

\* the lines start, start + 1, start + 2 of ls are a delimited block
BlockAt(ls, start) ==
    /\ Len(ls) >= start + 2
    /\ ls[start].t = "q"
    /\ ls[start + 1].t = "dtxt"
    /\ ls[start + 2].t = "q"

\* C18: a documentation node is appended to numb_inserted_nodes only if a
\* delimited block with its text was written into the file; a node without
\* documentation text is not appended
C18_InsertedOnlyIfWritten ==
    (last.result # None /\ last.node \in Range(numb_inserted_nodes)) =>
        /\ last.node.body0.doc # None
        /\ file = last.written
        /\ BlockAt(file, last.start)

\* C19: in a second call of insert_docstrings with the same text, for a
\* file and a text in which every key is unique, gpt_compare is not called
\* and the call leaves the file as the first call left it
UniqueKeys(ls) ==
    \A l, m \in 1..Len(ls) :
        (IsDefLine(ls, l) /\ IsDefLine(ls, m) /\ KeyAt(ls, l) = KeyAt(ls, m)) => l = m

C19_SecondRunIdempotent ==
    (run = 2 /\ UniqueKeys(orig) /\ UniqueKeys(Concat(generated))) =>
        /\ ~last.called
        /\ pc = "end_file" => (status = "done" /\ file = first)

====
